---- MODULE Spec2Model ----
(***************************************************************************)
(* A model of zapyt, a minimal fetch-based HTTP client.                    *)
(*                                                                         *)
(*   src/utils.ts  getContentType, handleError, getResponseType            *)
(*   src/index.ts  FetchClient (lines 8-115, the revision that returns the *)
(*                 deferred data() accessor and that index.test.ts tests)  *)
(*                                                                         *)
(* JavaScript values that may be absent are tagged records: Str(s) is the  *)
(* string s, Null and Undefined are the two absent values.  Strings are    *)
(* TLA+ strings and are taken apart character by character.                *)
(***************************************************************************)
EXTENDS Integers, Sequences, FiniteSets, TLC

-----------------------------------------------------------------------------
(* Bounds of the model *)

\* a header value is a concatenation of at most MaxParts fragments
MaxParts == 3
\* status codes handed to handleError directly range over 0..MaxStatusCode
MaxStatusCode == 650
\* the caller invokes data() on one ClientResponse at most MaxDataCalls times
MaxDataCalls == 2

-----------------------------------------------------------------------------
(* JavaScript values *)

Null == [tag |-> "null"]
Undefined == [tag |-> "undefined"]
Str(s) == [tag |-> "string", val |-> s]

IsStr(v) == v.tag = "string"

\* a ?? b
Coalesce(v, d) == IF v = Null \/ v = Undefined THEN d ELSE v

\* !v, for a string or an absent value
Falsy(v) == v = Null \/ v = Undefined \/ v = Str("")

\* the character of s at position i (1-based)
CharAt(s, i) == SubSeq(s, i, i)

\* position of the first occurrence of the character sep in s, 0 if none
IndexOf(s, sep) ==
  IF \E i \in 1..Len(s) : CharAt(s, i) = sep
  THEN CHOOSE i \in 1..Len(s) :
         /\ CharAt(s, i) = sep
         /\ \A j \in 1..(i - 1) : CharAt(s, j) # sep
  ELSE 0

\* s.split(sep) for a one-character separator: every piece, in order
RECURSIVE Split(_, _)
Split(s, sep) ==
  LET i == IndexOf(s, sep)
  IN  IF i = 0 THEN <<s>>
      ELSE <<SubSeq(s, 1, i - 1)>> \o Split(SubSeq(s, i + 1, Len(s)), sep)

UpperCaseLetters == "ABCDEFGHIJKLMNOPQRSTUVWXYZ"
LowerCaseLetters == "abcdefghijklmnopqrstuvwxyz"

\* s.toLowerCase(), for ASCII
RECURSIVE ToLower(_)
ToLower(s) ==
  IF s = "" THEN ""
  ELSE LET c == CharAt(s, 1)
           i == IndexOf(UpperCaseLetters, c)
       IN  (IF i = 0 THEN c ELSE CharAt(LowerCaseLetters, i))
             \o ToLower(SubSeq(s, 2, Len(s)))

\* the number of occurrences of the character sep in s
Occurrences(s, sep) == Cardinality({i \in 1..Len(s) : CharAt(s, i) = sep})

\* arr[i] of a JavaScript array (0-based): undefined past the end
At(arr, i) == IF i + 1 <= Len(arr) THEN Str(arr[i + 1]) ELSE Undefined

-----------------------------------------------------------------------------
(* src/types.ts *)

ContentType ==
  {"arrayBuffer", "blob", "bytes", "text", "json", "formData", "xml", "html"}

-----------------------------------------------------------------------------
(* src/utils.ts : getContentType *)

\* variant: keeps the piece after the last ';' instead of the one before the
\* first
StripParamsLast(header) ==
  IF header = Null \/ header = Undefined THEN Undefined
  ELSE LET pieces == Split(header.val, ";") IN At(pieces, Len(pieces) - 1)

\* headers.get("Content-Type")?.split(";")[0]
StripParams(header) ==
  IF header = Null \/ header = Undefined THEN Undefined
  ELSE At(Split(header.val, ";"), 0)

\* contentType?.split("/") ?? []
SplitMediaType(contentType) ==
  IF contentType = Null \/ contentType = Undefined THEN <<>>
  ELSE Split(contentType.val, "/")

\* variant: compares type and subtype without regard to letter case
MatchTableAnyCase(type, subtype) ==
  LET t == IF IsStr(type) THEN Str(ToLower(type.val)) ELSE type
      st == IF IsStr(subtype) THEN Str(ToLower(subtype.val)) ELSE subtype
  IN  IF Falsy(t) /\ Falsy(st) THEN "text"
      ELSE IF t = Str("application") /\ st = Str("json") THEN "json"
      ELSE IF t = Str("application") /\ st = Str("bytes") THEN "bytes"
      ELSE IF t = Str("application") /\ st = Str("form-data") THEN "formData"
      ELSE IF t = Str("application") /\ st = Str("arraybuffer") THEN "arrayBuffer"
      ELSE IF t = Str("application") /\ st = Str("blob") THEN "blob"
      ELSE "text"

\* variant: || where the table tests have &&
MatchTableEither(type, subtype) ==
  IF Falsy(type) /\ Falsy(subtype) THEN "text"
  ELSE IF type = Str("application") \/ subtype = Str("json") THEN "json"
  ELSE IF type = Str("application") \/ subtype = Str("bytes") THEN "bytes"
  ELSE IF type = Str("application") \/ subtype = Str("form-data") THEN "formData"
  ELSE IF type = Str("application") \/ subtype = Str("arraybuffer") THEN "arrayBuffer"
  ELSE IF type = Str("application") \/ subtype = Str("blob") THEN "blob"
  ELSE "text"

\* variant: a table row for text/html
MatchTableHtml(type, subtype) ==
  IF Falsy(type) /\ Falsy(subtype) THEN "text"
  ELSE IF type = Str("application") /\ subtype = Str("json") THEN "json"
  ELSE IF type = Str("application") /\ subtype = Str("bytes") THEN "bytes"
  ELSE IF type = Str("application") /\ subtype = Str("form-data") THEN "formData"
  ELSE IF type = Str("application") /\ subtype = Str("arraybuffer") THEN "arrayBuffer"
  ELSE IF type = Str("application") /\ subtype = Str("blob") THEN "blob"
  ELSE IF type = Str("text") /\ subtype = Str("html") THEN "html"
  ELSE "text"

\* the classification once type and subtype are destructured
MatchTable(type, subtype) ==
  IF Falsy(type) /\ Falsy(subtype) THEN "text"
  ELSE IF type = Str("application") /\ subtype = Str("json") THEN "json"
  ELSE IF type = Str("application") /\ subtype = Str("bytes") THEN "bytes"
  ELSE IF type = Str("application") /\ subtype = Str("form-data") THEN "formData"
  ELSE IF type = Str("application") /\ subtype = Str("arraybuffer") THEN "arrayBuffer"
  ELSE IF type = Str("application") /\ subtype = Str("blob") THEN "blob"
  ELSE "text"

\* variant: the fallback after the table is json, not text
getContentTypeJsonDefault(header) ==
  LET contentType == StripParams(header)
      parts == SplitMediaType(contentType)
      type == At(parts, 0)
      subtype == At(parts, 1)
      kind == MatchTable(type, subtype)
  IN  IF Falsy(type) /\ Falsy(subtype) THEN "text"
      ELSE IF kind = "text" THEN "json"
      ELSE kind

\* header is what headers.get("Content-Type") returns: Null or Str(value)
getContentType(header) ==
  LET contentType == StripParams(header)
      parts == SplitMediaType(contentType)
      type == At(parts, 0)
      subtype == At(parts, 1)
  IN  MatchTable(type, subtype)

-----------------------------------------------------------------------------
(* src/utils.ts : handleError *)

\* variant: || where the template has ??
RenderStatusTextOr(statusText) ==
  IF Falsy(statusText) THEN "Unknown" ELSE statusText.val

\* `${statusText ?? "Unknown"}`
RenderStatusText(statusText) == Coalesce(statusText, Str("Unknown")).val

ErrorMessage(prefix, statusCode, statusText) ==
  prefix \o " error: [" \o ToString(statusCode) \o "] ("
         \o RenderStatusText(statusText) \o ")"

\* variant: the range tests are strict at their lower ends
handleErrorStrict(statusCode, statusText) ==
  IF statusCode > 400 /\ statusCode <= 499
  THEN [threw |-> TRUE, message |-> ErrorMessage("Client", statusCode, statusText)]
  ELSE IF statusCode > 500 /\ statusCode <= 599
  THEN [threw |-> TRUE, message |-> ErrorMessage("Server", statusCode, statusText)]
  ELSE [threw |-> TRUE, message |-> ErrorMessage("Unknown", statusCode, statusText)]

\* every path of handleError ends in a throw
handleError(statusCode, statusText) ==
  IF statusCode >= 400 /\ statusCode <= 499
  THEN [threw |-> TRUE, message |-> ErrorMessage("Client", statusCode, statusText)]
  ELSE IF statusCode >= 500 /\ statusCode <= 599
  THEN [threw |-> TRUE, message |-> ErrorMessage("Server", statusCode, statusText)]
  ELSE [threw |-> TRUE, message |-> ErrorMessage("Unknown", statusCode, statusText)]

-----------------------------------------------------------------------------
(* The transport's Response, as src/index.ts and src/utils.ts use it *)

None == [tag |-> "none"]

\* response.ok
Ok(status) == status >= 200 /\ status <= 299

\* a body-read method called on the response: the call is logged; a body
\* is one-shot, so a read of a body already read rejects; a null body (as
\* of new Response(null, {status: 204})) is never marked used, and each read
\* of it yields the empty content; json() and formData() reject when the
\* content does not parse
ReadBody(response, method) ==
  [response |-> [response EXCEPT !.bodyReads = Append(@, method),
                                 !.bodyUsed = @ \/ response.hasBody],
   outcome |-> IF response.bodyUsed THEN "TypeError: body already read"
               ELSE IF method \in {"json", "formData"} /\ ~response.wellFormed
               THEN "DecodeError"
               ELSE "decoded:" \o method]

-----------------------------------------------------------------------------
(* src/utils.ts : getResponseType *)

\* variant: the bytes case calls arrayBuffer()
ReadMethodBytesAsBuffer(contentType) ==
  CASE contentType = "json" -> "json"
    [] contentType = "text" -> "text"
    [] contentType = "blob" -> "blob"
    [] contentType = "arrayBuffer" -> "arrayBuffer"
    [] contentType = "bytes" -> "arrayBuffer"
    [] contentType = "formData" -> "formData"
    [] contentType \in {"xml", "html"} -> "text"
    [] OTHER -> "text"

\* the body-read method of the response that each case of the switch calls
ReadMethod(contentType) ==
  CASE contentType = "json" -> "json"
    [] contentType = "text" -> "text"
    [] contentType = "blob" -> "blob"
    [] contentType = "arrayBuffer" -> "arrayBuffer"
    [] contentType = "bytes" -> "bytes"
    [] contentType = "formData" -> "formData"
    [] contentType \in {"xml", "html"} -> "text"
    [] OTHER -> "text"

\* the branch of the switch that a kind selects
SwitchBranch(contentType) ==
  CASE contentType = "json" -> "case json"
    [] contentType = "text" -> "case text"
    [] contentType = "blob" -> "case blob"
    [] contentType = "arrayBuffer" -> "case arrayBuffer"
    [] contentType = "bytes" -> "case bytes"
    [] contentType = "formData" -> "case formData"
    [] contentType \in {"xml", "html"} -> "case xml, case html"
    [] OTHER -> "default"

\* getResponseType(response): classifies, then calls one body-read method
getResponseType(response) ==
  LET contentType == getContentType(response.contentType)
  IN  ReadBody(response, ReadMethod(contentType))

-----------------------------------------------------------------------------
(* src/index.ts : FetchClient *)

Digits == "0123456789"
SchemePunctuation == "+-."
SpecialSchemes == {"http", "https", "ftp", "ws", "wss"}

IsLetter(c) == IndexOf(UpperCaseLetters, c) > 0 \/ IndexOf(LowerCaseLetters, c) > 0

IsSchemeChar(c) ==
  IsLetter(c) \/ IndexOf(Digits, c) > 0 \/ IndexOf(SchemePunctuation, c) > 0

\* s without its leading '/' characters
RECURSIVE StripLeadingSlashes(_)
StripLeadingSlashes(s) ==
  IF s # "" /\ CharAt(s, 1) = "/" THEN StripLeadingSlashes(SubSeq(s, 2, Len(s)))
  ELSE s

\* URL.canParse(s) with no base: s must open with a scheme and ':', and a
\* special scheme must be followed by a host
CanParse(s) ==
  LET i == IndexOf(s, ":")
      scheme == SubSeq(s, 1, i - 1)
      rest == SubSeq(s, i + 1, Len(s))
  IN  /\ i > 1
      /\ IsLetter(CharAt(scheme, 1))
      /\ \A j \in 1..Len(scheme) : IsSchemeChar(CharAt(scheme, j))
      /\ ToLower(scheme) \in SpecialSchemes => StripLeadingSlashes(rest) # ""

\* const { headers } = options ?? {}
OptionsHeaders(options) ==
  IF options = Null \/ options = Undefined THEN Undefined ELSE options.headers

\* JSON.stringify(payload), for the payloads of the model
JSONStringify(payload) ==
  CASE payload = Undefined -> Undefined
    [] payload = Null -> Str("null")
    [] payload.tag = "string" -> Str("\"" \o payload.val \o "\"")
    [] payload.tag = "number" -> Str(ToString(payload.val))

\* variant: tests status >= 400 where the verbs test !ok
SettleFrom400(req, response) ==
  LET status == response.status
      statusText == response.statusText
      thrown == IF status >= 400 THEN handleError(status, Str(statusText))
                ELSE None
  IN  IF thrown # None /\ thrown.threw
      THEN [req EXCEPT !.pc = "rejected", !.response = response,
                       !.error = Str(thrown.message),
                       !.handleErrorCalls = @ + 1]
      ELSE [req EXCEPT !.pc = "fulfilled", !.response = response,
                       !.result = [status |-> status, statusText |-> statusText],
                       !.handleErrorCalls = IF thrown = None THEN @ ELSE @ + 1]

\* variant: tests ok where the verbs test !ok
SettleInverted(req, response) ==
  LET status == response.status
      statusText == response.statusText
      ok == Ok(status)
      thrown == IF ok THEN handleError(status, Str(statusText)) ELSE None
  IN  IF thrown # None /\ thrown.threw
      THEN [req EXCEPT !.pc = "rejected", !.response = response,
                       !.error = Str(thrown.message),
                       !.handleErrorCalls = @ + 1]
      ELSE [req EXCEPT !.pc = "fulfilled", !.response = response,
                       !.result = [status |-> status, statusText |-> statusText],
                       !.handleErrorCalls = IF thrown = None THEN @ ELSE @ + 1]

\* variant: awaits response.json() before returning, as the earlier revision
\* of the verbs did
SettleEager(req, response) ==
  LET status == response.status
      statusText == response.statusText
      ok == Ok(status)
      thrown == IF ~ok THEN handleError(status, Str(statusText)) ELSE None
      read == ReadBody(response, "json")
  IN  IF thrown # None /\ thrown.threw
      THEN [req EXCEPT !.pc = "rejected", !.response = response,
                       !.error = Str(thrown.message),
                       !.handleErrorCalls = @ + 1]
      ELSE IF read.outcome = "DecodeError"
      THEN [req EXCEPT !.pc = "rejected", !.response = read.response,
                       !.error = Str("DecodeError"),
                       !.handleErrorCalls = IF thrown = None THEN @ ELSE @ + 1]
      ELSE [req EXCEPT !.pc = "fulfilled", !.response = read.response,
                       !.result = [status |-> status, statusText |-> statusText],
                       !.handleErrorCalls = IF thrown = None THEN @ ELSE @ + 1]

\* what each verb does once fetch has resolved with response: destructure
\* status, statusText and ok, call handleError when !ok, else return the
\* ClientResponse {data, status, statusText}
Settle(req, response) ==
  LET status == response.status
      statusText == response.statusText
      ok == Ok(status)
      thrown == IF ~ok THEN handleError(status, Str(statusText)) ELSE None
  IN  IF thrown # None /\ thrown.threw
      THEN [req EXCEPT !.pc = "rejected", !.response = response,
                       !.error = Str(thrown.message),
                       !.handleErrorCalls = @ + 1]
      ELSE [req EXCEPT !.pc = "fulfilled", !.response = response,
                       !.result = [status |-> status, statusText |-> statusText],
                       !.handleErrorCalls = IF thrown = None THEN @ ELSE @ + 1]

-----------------------------------------------------------------------------
(* Inputs *)

Fragments ==
  {"application", "Application", "text", "plain", "html", "/", ";", "json",
   "JSON", "bytes", "form-data", "arraybuffer", "blob", "application/json"}

\* every concatenation of at most n fragments
RECURSIVE Concats(_)
Concats(n) ==
  IF n = 0 THEN {""}
  ELSE LET shorter == Concats(n - 1)
       IN  shorter \cup {s \o f : s \in shorter, f \in Fragments}

HeaderValues == {Null} \cup {Str(s) : s \in Concats(MaxParts)}

\* parameter strings appended after a ';'
Params == {"", " charset=utf-8", "q=1;application/blob", "/json"}

StatusTexts ==
  {Null, Undefined, Str(""), Str("OK"), Str("Not Found"), Str("Unknown")}

\* what a fetch may resolve with
ResponseStatuses == {200, 204, 299, 300, 400, 404, 499, 500, 599, 600}
ResponseStatusTexts == {"", "OK", "Not Found"}
ResponseContentTypes ==
  {Null, Str("application/json"), Str("application/json; charset=utf-8"),
   Str("application/bytes"), Str("application/form-data"),
   Str("application/arraybuffer"), Str("application/blob"),
   Str("text/plain"), Str("application/unknown")}

\* a 204 response has a null body, and the empty content of a null body
\* parses neither as JSON nor as form data
Responses ==
  {x \in [status : ResponseStatuses, statusText : ResponseStatusTexts,
          contentType : ResponseContentTypes, hasBody : BOOLEAN,
          wellFormed : BOOLEAN, bodyUsed : {FALSE}, bodyReads : {<<>>}] :
     /\ x.status = 204 => ~x.hasBody
     /\ ~x.hasBody => ~x.wellFormed}

\* what new FetchClient may be given
BaseUrls ==
  {"https://api.example.com", "localhost:3000", "not-a-valid-url", "",
   "https://", "/api"}

Reqs == {"r1"}
Paths == {"/users/1", "todos"}
Options == {Undefined, [tag |-> "options", headers |-> Undefined],
            [tag |-> "options", headers |-> Str("Authorization: Bearer token")]}
Payloads == {Undefined, Null, Str("a"), [tag |-> "number", val |-> 1]}

-----------------------------------------------------------------------------
(* State *)

VARIABLES
  errArgs,      \* arguments of a direct call of handleError
  errResult,    \* its outcome, None before the call
  hdr,          \* a Content-Type value handed to getContentType
  param,        \* a parameter string appended to it after ';'
  kindPlain,    \* getContentType of hdr, "none" before the call
  kindParam,    \* getContentType of hdr;param, "none" before the call
  client,       \* "unconstructed", "constructed" (an instance exists) or
                \* "failed" (the constructor threw: no instance)
  ctorArg,      \* the base URL given to the constructor
  ctorError,    \* the error the constructor threw, None if none
  baseUrl,      \* FetchClient.baseUrl; "" while no instance exists
  reqs,         \* the verb calls on the client, by request
  fetchCalls    \* the calls of fetch made so far, in order

vars ==
  <<errArgs, errResult, hdr, param, kindPlain, kindParam, client, ctorArg,
    ctorError, baseUrl, reqs, fetchCalls>>

errVars == <<errArgs, errResult>>
classifyVars == <<hdr, param, kindPlain, kindParam>>
ctorVars == <<client, ctorArg, ctorError, baseUrl>>
clientVars == <<ctorVars, reqs, fetchCalls>>

IdleReq ==
  [pc |-> "idle", verb |-> "none", args |-> None, response |-> None,
   result |-> None,
   error |-> None, handleErrorCalls |-> 0, dataCalls |-> 0,
   dataOutcomes |-> <<>>]

\* the state after new FetchClient("https://api.example.com")
InitClient ==
  /\ client = "constructed"
  /\ ctorArg = "https://api.example.com"
  /\ ctorError = None
  /\ baseUrl = "https://api.example.com"
  /\ reqs = [r \in Reqs |-> IdleReq]
  /\ fetchCalls = <<>>

InitErrorIdle ==
  /\ errArgs = None
  /\ errResult = None

InitClassifyIdle ==
  /\ hdr = Null
  /\ param = ""
  /\ kindPlain = "none"
  /\ kindParam = "none"

-----------------------------------------------------------------------------
(* Direct calls of handleError (src/utils.test.ts, describe("handleError")) *)

InitError ==
  /\ errArgs \in [statusCode : 0..MaxStatusCode, statusText : StatusTexts]
  /\ errResult = None
  /\ InitClassifyIdle
  /\ InitClient

CallHandleError ==
  /\ errArgs # None
  /\ errResult = None
  /\ errResult' = handleError(errArgs.statusCode, errArgs.statusText)
  /\ UNCHANGED <<errArgs, classifyVars, clientVars>>

NextError == CallHandleError

SpecError == InitError /\ [][NextError]_vars

-----------------------------------------------------------------------------
(* Direct calls of getContentType (src/utils.test.ts,                      *)
(* describe("getContentType"))                                             *)

InitClassify ==
  /\ hdr \in HeaderValues
  /\ param \in Params
  /\ kindPlain = "none"
  /\ kindParam = "none"
  /\ InitErrorIdle
  /\ InitClient

\* getContentType(new Headers({"Content-Type": hdr})), or of empty Headers
ClassifyPlain ==
  /\ kindPlain = "none"
  /\ kindPlain' = getContentType(hdr)
  /\ UNCHANGED <<hdr, param, kindParam, errVars, clientVars>>

\* getContentType(new Headers({"Content-Type": hdr + ";" + param}))
ClassifyWithParam ==
  /\ kindParam = "none"
  /\ hdr # Null
  /\ kindParam' = getContentType(Str(hdr.val \o ";" \o param))
  /\ UNCHANGED <<hdr, param, kindPlain, errVars, clientVars>>

NextClassify == ClassifyPlain \/ ClassifyWithParam

SpecClassify == InitClassify /\ [][NextClassify]_vars

-----------------------------------------------------------------------------
(* Properties of handleError, under SpecError *)

ErrorCalled == errResult # None

C1_Prefix(c) ==
  IF c >= 400 /\ c <= 499 THEN "Client error: ["
  ELSE IF c >= 500 /\ c <= 599 THEN "Server error: ["
  ELSE "Unknown error: ["

\* C1: handleError(c, s) with a status text s always throws, and the
\* message is exactly 'Client error: [c] (s)' for 400 <= c <= 499,
\* 'Server error: [c] (s)' for 500 <= c <= 599 and 'Unknown error: [c] (s)'
\* for every other c.
C1_ErrorMessageByRange ==
  (ErrorCalled /\ IsStr(errArgs.statusText)) =>
    /\ errResult.threw
    /\ errResult.message =
         C1_Prefix(errArgs.statusCode) \o ToString(errArgs.statusCode)
           \o "] (" \o errArgs.statusText.val \o ")"

C1_Witness ==
  /\ ErrorCalled
  /\ errArgs = [statusCode |-> 599, statusText |-> Str("Not Found")]
  /\ errResult = [threw |-> TRUE, message |-> "Server error: [599] (Not Found)"]

\* what the message shows between its '(' and its final ')'
C10_Rendered(message) ==
  SubSeq(message, IndexOf(message, "(") + 1, Len(message) - 1)

\* C10: the message renders a provided status text verbatim, the empty
\* string as '()'; 'Unknown' stands in only for null or undefined.
C10_StatusTextVerbatim ==
  ErrorCalled =>
    /\ IsStr(errArgs.statusText) =>
         C10_Rendered(errResult.message) = errArgs.statusText.val
    /\ errArgs.statusText = Str("") =>
         /\ C10_Rendered(errResult.message) = ""
         /\ SubSeq(errResult.message, Len(errResult.message) - 1,
                   Len(errResult.message)) = "()"
    /\ errArgs.statusText \in {Null, Undefined} <=>
         (C10_Rendered(errResult.message) = "Unknown"
            /\ errArgs.statusText # Str("Unknown"))

C10_Witness ==
  /\ ErrorCalled
  /\ errArgs = [statusCode |-> 400, statusText |-> Str("")]
  /\ errResult.message = "Client error: [400] ()"

-----------------------------------------------------------------------------
(* Properties of getContentType, under SpecClassify *)

\* the fixed table: <<type, subtype, kind>>
C4_Table ==
  {<<"application", "json", "json">>,
   <<"application", "bytes", "bytes">>,
   <<"application", "form-data", "formData">>,
   <<"application", "arraybuffer", "arrayBuffer">>,
   <<"application", "blob", "blob">>}

C4_TableValues == {e[1] \o "/" \o e[2] : e \in C4_Table}

\* C4: the five table pairs classify as their kinds by exact match; a value
\* that differs from a table entry only in letter case classifies as text.
C4_ExactCaseSensitiveMatch ==
  (kindPlain # "none" /\ hdr # Null) =>
    /\ \A e \in C4_Table : hdr.val = e[1] \o "/" \o e[2] => kindPlain = e[3]
    /\ (hdr.val \notin C4_TableValues /\ ToLower(hdr.val) \in C4_TableValues)
         => kindPlain = "text"

C4_Witness ==
  /\ hdr = Str("Application/JSON")
  /\ kindPlain = "text"

\* the header value up to its first ';'
Stripped(v) ==
  LET i == IndexOf(v, ";") IN IF i = 0 THEN v ELSE SubSeq(v, 1, i - 1)

\* the halves of a value around its first '/'; the subtype is missing when
\* there is no '/'
TypeHalf(v) ==
  LET i == IndexOf(v, "/") IN IF i = 0 THEN v ELSE SubSeq(v, 1, i - 1)
SubtypeHalf(v) ==
  LET i == IndexOf(v, "/") IN IF i = 0 THEN "" ELSE SubSeq(v, i + 1, Len(v))

\* C5: getContentType never throws: it returns a kind for every header
\* value and for no header; and every value '<type>/<subtype>' (one '/')
\* whose pair is not in the table classifies as text.
C5_TotalWithTextDefault ==
  kindPlain # "none" =>
    /\ kindPlain \in ContentType
    /\ (/\ hdr # Null
        /\ Occurrences(Stripped(hdr.val), "/") = 1
        /\ Stripped(hdr.val) \notin C4_TableValues)
         => kindPlain = "text"

C5_Witness ==
  /\ hdr = Str("text/plain")
  /\ kindPlain = "text"

\* C6: for a value v without ';' and any parameter string p, v;p classifies
\* as v does.
C6_ParamsIgnored ==
  (/\ kindPlain # "none"
   /\ kindParam # "none"
   /\ hdr # Null
   /\ Occurrences(hdr.val, ";") = 0)
    => kindParam = kindPlain

C6_Witness ==
  /\ hdr = Str("application/json")
  /\ param = " charset=utf-8"
  /\ kindPlain = "json"
  /\ kindParam = "json"

\* C7: no Content-Type header, or a stripped value whose type half or
\* subtype half is missing or empty, classifies as text.
C7_MissingHalfIsText ==
  kindPlain # "none" =>
    ((\/ hdr = Null
      \/ TypeHalf(Stripped(hdr.val)) = ""
      \/ SubtypeHalf(Stripped(hdr.val)) = "")
       => kindPlain = "text")

C7_Witness ==
  /\ hdr = Str("/json")
  /\ kindPlain = "text"

-----------------------------------------------------------------------------
(* The client: verb calls, the transport's answers, and data() *)

Init ==
  /\ InitClient
  /\ InitErrorIdle
  /\ InitClassifyIdle

\* variant: the constructor stores the base URL without testing it
constructorUnchecked(url) ==
  /\ client = "unconstructed"
  /\ ctorArg' = url
  /\ client' = "constructed"
  /\ baseUrl' = url
  /\ ctorError' = None
  /\ UNCHANGED <<reqs, fetchCalls, errVars, classifyVars>>

\* new FetchClient(url)
constructor(url) ==
  /\ client = "unconstructed"
  /\ ctorArg' = url
  /\ IF ~CanParse(url)
     THEN /\ client' = "failed"
          /\ ctorError' = Str("Invalid base URL")
          /\ UNCHANGED baseUrl
     ELSE /\ client' = "constructed"
          /\ baseUrl' = url
          /\ ctorError' = None
  /\ UNCHANGED <<reqs, fetchCalls, errVars, classifyVars>>

\* the part of a verb up to its await: one call of fetch
StartVerb(r, verb, args, call) ==
  /\ client = "constructed"
  /\ reqs[r].pc = "idle"
  /\ fetchCalls' = Append(fetchCalls, call)
  /\ reqs' = [reqs EXCEPT ![r].pc = "awaitFetch", ![r].verb = verb,
                          ![r].args = args]
  /\ UNCHANGED <<ctorVars, errVars, classifyVars>>

get(r, url, options) ==
  StartVerb(r, "get", [url |-> url, options |-> options],
            [req |-> r, url |-> baseUrl \o url,
             init |-> [headers |-> OptionsHeaders(options), method |-> "GET"]])

post(r, url, payload, options) ==
  StartVerb(r, "post",
            [url |-> url, payload |-> payload, options |-> options],
            [req |-> r, url |-> baseUrl \o url,
             init |-> [headers |-> OptionsHeaders(options), method |-> "POST",
                       body |-> JSONStringify(payload)]])

\* variant: put sends the method of post
putMethodPost(r, url, payload, options) ==
  StartVerb(r, "put",
            [url |-> url, payload |-> payload, options |-> options],
            [req |-> r, url |-> baseUrl \o url,
             init |-> [headers |-> OptionsHeaders(options), method |-> "POST",
                       body |-> JSONStringify(payload)]])

put(r, url, payload, options) ==
  StartVerb(r, "put",
            [url |-> url, payload |-> payload, options |-> options],
            [req |-> r, url |-> baseUrl \o url,
             init |-> [headers |-> OptionsHeaders(options), method |-> "PUT",
                       body |-> JSONStringify(payload)]])

delete(r, url, options) ==
  StartVerb(r, "delete", [url |-> url, options |-> options],
            [req |-> r, url |-> baseUrl \o url,
             init |-> [headers |-> OptionsHeaders(options), method |-> "DELETE"]])

\* fetch resolves with a response and the verb runs on to its end
FetchResolves(r, response) ==
  /\ reqs[r].pc = "awaitFetch"
  /\ reqs' = [reqs EXCEPT ![r] = Settle(@, response)]
  /\ UNCHANGED <<ctorVars, fetchCalls, errVars, classifyVars>>

\* fetch rejects (a network failure) and the verb rejects with its error
FetchRejects(r) ==
  /\ reqs[r].pc = "awaitFetch"
  /\ reqs' = [reqs EXCEPT ![r].pc = "rejected",
                          ![r].error = Str("TypeError: fetch failed")]
  /\ UNCHANGED <<ctorVars, fetchCalls, errVars, classifyVars>>

\* variant: data() reads the response of another answered call when there
\* is one, as if the verbs kept the response in a field of the client
InvokeDataShared(r) ==
  /\ reqs[r].pc = "fulfilled"
  /\ reqs[r].dataCalls < MaxDataCalls
  /\ LET others == {q \in DOMAIN reqs \ {r} : reqs[q].response # None}
         src == IF others = {} THEN r ELSE CHOOSE q \in others : TRUE
         read == getResponseType(reqs[src].response)
     IN  reqs' = [q \in DOMAIN reqs |->
                    IF q = r
                    THEN [reqs[q] EXCEPT
                            !.response = IF src = r THEN read.response ELSE @,
                            !.dataCalls = @ + 1,
                            !.dataOutcomes = Append(@, read.outcome)]
                    ELSE IF q = src
                    THEN [reqs[q] EXCEPT !.response = read.response]
                    ELSE reqs[q]]
  /\ UNCHANGED <<ctorVars, fetchCalls, errVars, classifyVars>>

\* the caller invokes data() of the ClientResponse it received
InvokeData(r) ==
  /\ reqs[r].pc = "fulfilled"
  /\ reqs[r].dataCalls < MaxDataCalls
  /\ LET read == getResponseType(reqs[r].response)
     IN  reqs' = [reqs EXCEPT ![r].response = read.response,
                              ![r].dataCalls = @ + 1,
                              ![r].dataOutcomes = Append(@, read.outcome)]
  /\ UNCHANGED <<ctorVars, fetchCalls, errVars, classifyVars>>

Next ==
  \E r \in Reqs :
    \/ \E url \in Paths, options \in Options : get(r, url, options)
    \/ \E url \in Paths, payload \in Payloads, options \in Options :
         post(r, url, payload, options)
    \/ \E url \in Paths, payload \in Payloads, options \in Options :
         put(r, url, payload, options)
    \/ \E url \in Paths, options \in Options : delete(r, url, options)
    \/ \E response \in Responses : FetchResolves(r, response)
    \/ FetchRejects(r)
    \/ InvokeData(r)

Spec == Init /\ [][Next]_vars

-----------------------------------------------------------------------------
(* Properties of the verbs and of data(), under Spec *)

Verbs == {"get", "post", "put", "delete"}

\* the transport has answered request r with a response
Answered(r) == reqs[r].response # None

\* C2: when the response is not ok, the verb call fails with the message of
\* handleError for its status and status text, no body-read method has been
\* called on the response, and the caller holds no ClientResponse.
C2_FailedStatusRejectsUnread ==
  \A r \in Reqs :
    (Answered(r) /\ ~Ok(reqs[r].response.status)) =>
      /\ reqs[r].verb \in Verbs
      /\ reqs[r].pc = "rejected"
      /\ reqs[r].error =
           Str(C1_Prefix(reqs[r].response.status)
                 \o ToString(reqs[r].response.status) \o "] ("
                 \o reqs[r].response.statusText \o ")")
      /\ reqs[r].response.bodyReads = <<>>
      /\ ~reqs[r].response.bodyUsed
      /\ reqs[r].result = None
      /\ reqs[r].dataCalls = 0

C2_Witness ==
  \E r \in Reqs :
    /\ reqs[r].verb = "put"
    /\ Answered(r)
    /\ reqs[r].response.status = 404
    /\ reqs[r].response.statusText = "Not Found"
    /\ reqs[r].pc = "rejected"
    /\ reqs[r].error = Str("Client error: [404] (Not Found)")
    /\ reqs[r].result = None

\* C3: when the response is ok, handleError is not called, the verb call
\* does not fail, and the ClientResponse carries the response's status and
\* status text.
C3_OkStatusReturnsMetadata ==
  \A r \in Reqs :
    (Answered(r) /\ Ok(reqs[r].response.status)) =>
      /\ reqs[r].verb \in Verbs
      /\ reqs[r].handleErrorCalls = 0
      /\ reqs[r].pc = "fulfilled"
      /\ reqs[r].error = None
      /\ reqs[r].result =
           [status |-> reqs[r].response.status,
            statusText |-> reqs[r].response.statusText]

C3_Witness ==
  \E r \in Reqs :
    /\ reqs[r].verb = "delete"
    /\ Answered(r)
    /\ reqs[r].response.contentType = Null
    /\ reqs[r].pc = "fulfilled"
    /\ reqs[r].result = [status |-> 204, statusText |-> ""]
    /\ reqs[r].handleErrorCalls = 0

\* the body-read method the spec assigns to each Content-Type of the model
C8_Expected(contentType) ==
  CASE contentType \in {Str("application/json"),
                        Str("application/json; charset=utf-8")} -> "json"
    [] contentType = Str("application/bytes") -> "bytes"
    [] contentType = Str("application/form-data") -> "formData"
    [] contentType = Str("application/arraybuffer") -> "arrayBuffer"
    [] contentType = Str("application/blob") -> "blob"
    [] contentType \in {Null, Str("text/plain"), Str("application/unknown")}
         -> "text"

\* C8: each invocation of data() calls exactly one body-read method on the
\* response, the one of the classified kind; text() for a missing or
\* unknown content type.
C8_OneMatchingReadPerCall ==
  \A r \in Reqs :
    Answered(r) =>
      /\ Len(reqs[r].response.bodyReads) = reqs[r].dataCalls
      /\ \A i \in 1..Len(reqs[r].response.bodyReads) :
           reqs[r].response.bodyReads[i] =
             C8_Expected(reqs[r].response.contentType)

C8_Witness ==
  \E r \in Reqs :
    /\ Answered(r)
    /\ reqs[r].response.contentType = Str("application/bytes")
    /\ reqs[r].dataCalls = 1
    /\ reqs[r].response.bodyReads = <<"bytes">>

\* C9: a verb call that succeeds has called no body-read method by the time
\* it returns, whatever the body holds; the body is read only by data(), so
\* a decode failure is an outcome of data() and never of the verb call.
C9_DecodeDeferred ==
  \A r \in Reqs :
    /\ (reqs[r].pc = "fulfilled" /\ reqs[r].dataCalls = 0) =>
         (reqs[r].response.bodyReads = <<>> /\ ~reqs[r].response.bodyUsed)
    /\ (Answered(r) /\ Ok(reqs[r].response.status)) =>
         (reqs[r].pc = "fulfilled" /\ reqs[r].error # Str("DecodeError"))
    /\ (Answered(r) /\ reqs[r].response.bodyUsed) => reqs[r].dataCalls >= 1

C9_Witness ==
  \E r \in Reqs :
    /\ reqs[r].pc = "fulfilled"
    /\ reqs[r].response.contentType = Str("application/json")
    /\ ~reqs[r].response.wellFormed
    /\ reqs[r].dataCalls = 1
    /\ reqs[r].dataOutcomes = <<"DecodeError">>
    /\ reqs[r].result = [status |-> 200, statusText |-> "OK"]

-----------------------------------------------------------------------------
(* The client from its construction on *)

InitConstruct ==
  /\ client = "unconstructed"
  /\ ctorArg = ""
  /\ ctorError = None
  /\ baseUrl = ""
  /\ reqs = [r \in Reqs |-> IdleReq]
  /\ fetchCalls = <<>>
  /\ InitErrorIdle
  /\ InitClassifyIdle

NextConstruct ==
  \/ \E url \in BaseUrls : constructor(url)
  \/ Next

SpecConstruct == InitConstruct /\ [][NextConstruct]_vars

\* the base URLs of the model that are not absolute URLs
C11_Unparseable == {"not-a-valid-url", "", "https://", "/api"}

\* C11: constructing with a base URL that does not parse as an absolute URL
\* throws 'Invalid base URL', leaves no instance and never leads to a call
\* of fetch; constructing with one that parses stores it unchanged.
C11_InvalidBaseUrlRejected ==
  client # "unconstructed" =>
    /\ ctorArg \in C11_Unparseable =>
         /\ client = "failed"
         /\ ctorError = Str("Invalid base URL")
         /\ fetchCalls = <<>>
         /\ \A r \in Reqs : reqs[r] = IdleReq
    /\ ctorArg \notin C11_Unparseable =>
         /\ client = "constructed"
         /\ ctorError = None
         /\ baseUrl = ctorArg

C11_Witness ==
  /\ client = "failed"
  /\ ctorArg = "not-a-valid-url"
  /\ ctorError = Str("Invalid base URL")
  /\ fetchCalls = <<>>

-----------------------------------------------------------------------------
(* Properties of the calls of fetch, under Spec *)

\* the positions in fetchCalls of the calls made for request r
C12_CallsOf(r) == {i \in 1..Len(fetchCalls) : fetchCalls[i].req = r}

C12_Method(verb) ==
  CASE verb = "get" -> "GET"
    [] verb = "post" -> "POST"
    [] verb = "put" -> "PUT"
    [] verb = "delete" -> "DELETE"

\* the JSON text of the payloads of the model that have one
C12_JSONText(payload) ==
  CASE payload = Null -> "null"
    [] payload = Str("a") -> "\"a\""
    [] payload = [tag |-> "number", val |-> 1] -> "1"

\* C12: a verb call makes exactly one call of fetch, whatever its outcome:
\* the URL is the base URL followed by the path as given, the method is the
\* verb's, the headers are those of the options (undefined without options),
\* and the body is the JSON text of the payload for post and put and is
\* not given for get and delete.
C12_OneFetchPerCall ==
  \A r \in Reqs :
    IF reqs[r].pc = "idle" THEN C12_CallsOf(r) = {}
    ELSE
      /\ Cardinality(C12_CallsOf(r)) = 1
      /\ LET call == fetchCalls[CHOOSE i \in C12_CallsOf(r) : TRUE]
             args == reqs[r].args
         IN  /\ call.url = baseUrl \o args.url
             /\ call.init.method = C12_Method(reqs[r].verb)
             /\ call.init.headers =
                  (IF args.options = Undefined THEN Undefined
                   ELSE args.options.headers)
             /\ reqs[r].verb \in {"get", "delete"} =>
                  "body" \notin DOMAIN call.init
             /\ reqs[r].verb \in {"post", "put"} =>
                  /\ "body" \in DOMAIN call.init
                  /\ args.payload # Undefined =>
                       call.init.body = Str(C12_JSONText(args.payload))

C12_Witness ==
  \E r \in Reqs :
    /\ reqs[r].verb = "put"
    /\ reqs[r].pc = "rejected"
    /\ reqs[r].error = Str("Server error: [500] (OK)")
    /\ reqs[r].args.payload = Str("a")
    /\ fetchCalls =
         <<[req |-> r, url |-> "https://api.example.comtodos",
            init |-> [headers |-> Str("Authorization: Bearer token"),
                      method |-> "PUT", body |-> Str("\"a\"")]]>>

-----------------------------------------------------------------------------
(* Repeated invocations of data(), under Spec *)

C13_Failure == {"TypeError: body already read", "DecodeError"}

\* C13: over the invocations of data() of one ClientResponse the body is
\* read at most once: only the first invocation may yield content, and
\* every later invocation fails with an error.
C13_LaterDataCallsFail ==
  \A r \in Reqs :
    \A i \in 2..Len(reqs[r].dataOutcomes) :
      reqs[r].dataOutcomes[i] \in C13_Failure

-----------------------------------------------------------------------------
(* The split at '/', under SpecClassify *)

\* the kind of the table for a pair of halves, text when there is none
C14_TableKind(type, subtype) ==
  IF \E e \in C4_Table : e[1] = type /\ e[2] = subtype
  THEN (CHOOSE e \in C4_Table : e[1] = type /\ e[2] = subtype)[3]
  ELSE "text"

\* C14: the stripped value is split at its first '/' only and the subtype
\* is the whole remainder, so a value with a further '/' after a table
\* subtype (application/json/extra) matches no table entry and classifies
\* as text.
C14_SplitAtFirstSlashOnly ==
  (kindPlain # "none" /\ hdr # Null) =>
    kindPlain = C14_TableKind(TypeHalf(Stripped(hdr.val)),
                              SubtypeHalf(Stripped(hdr.val)))

-----------------------------------------------------------------------------
(* The range of getContentType, under SpecClassify *)

C15_Produced == {"json", "text", "blob", "arrayBuffer", "bytes", "formData"}
C15_DeadBranches == {"case xml, case html", "default"}

\* C15: for every header lookup getContentType returns one of json, text,
\* blob, arrayBuffer, bytes, formData and never xml or html, so the xml/html
\* and default branches of the switch of getResponseType are never taken.
C15_NeverXmlOrHtml ==
  /\ kindPlain # "none" =>
       /\ kindPlain \in C15_Produced
       /\ SwitchBranch(kindPlain) \notin C15_DeadBranches
  /\ kindParam # "none" =>
       /\ kindParam \in C15_Produced
       /\ SwitchBranch(kindParam) \notin C15_DeadBranches

C15_Witness ==
  /\ hdr = Str("text/html")
  /\ kindPlain = "text"
  /\ SwitchBranch(kindPlain) = "case text"

-----------------------------------------------------------------------------
(* Two verb calls in flight on one client *)

ConcurrentReqs == {"r1", "r2"}

ConcurrentResponses ==
  {x \in Responses :
     /\ x.status \in {200, 204, 404}
     /\ x.statusText = "OK"
     /\ x.contentType \in {Null, Str("application/json")}}

InitConcurrent ==
  /\ client = "unconstructed"
  /\ ctorArg = ""
  /\ ctorError = None
  /\ baseUrl = ""
  /\ reqs = [r \in ConcurrentReqs |-> IdleReq]
  /\ fetchCalls = <<>>
  /\ InitErrorIdle
  /\ InitClassifyIdle

NextConcurrent ==
  \/ \E url \in BaseUrls : constructor(url)
  \/ \E r \in ConcurrentReqs :
       \/ get(r, "todos", Undefined)
       \/ post(r, "todos", Str("a"), Undefined)
       \/ put(r, "todos", Str("a"), Undefined)
       \/ delete(r, "todos", Undefined)
       \/ \E response \in ConcurrentResponses : FetchResolves(r, response)
       \/ FetchRejects(r)
       \/ InvokeData(r)

SpecConcurrent == InitConcurrent /\ [][NextConcurrent]_vars

\* a verb call that has reached its await
C16_Started(verb, args) ==
  [IdleReq EXCEPT !.pc = "awaitFetch", !.verb = verb, !.args = args]

\* the request after n invocations of data(), one after the other
RECURSIVE C16_DataTimes(_, _)
C16_DataTimes(req, n) ==
  IF n = 0 THEN req
  ELSE LET prev == C16_DataTimes(req, n - 1)
           read == getResponseType(prev.response)
       IN  [prev EXCEPT !.response = read.response,
                        !.dataCalls = @ + 1,
                        !.dataOutcomes = Append(@, read.outcome)]

\* the response as the transport handed it over
C16_Fresh(response) ==
  [response EXCEPT !.bodyUsed = FALSE, !.bodyReads = <<>>]

\* request r is where the same call, answer and data() invocations lead
\* when nothing else runs
C16_AsAlone(r) ==
  LET req == reqs[r]
      started == C16_Started(req.verb, req.args)
  IN  CASE req.pc = "idle" -> req = IdleReq
        [] req.pc = "awaitFetch" -> req = started
        [] req.pc \in {"fulfilled", "rejected"} /\ req.response = None ->
             req = [started EXCEPT !.pc = "rejected",
                                   !.error = Str("TypeError: fetch failed")]
        [] req.pc \in {"fulfilled", "rejected"} /\ req.response # None ->
             req = C16_DataTimes(Settle(started, C16_Fresh(req.response)),
                                 req.dataCalls)

\* C16: calls in flight on one client are independent: the base URL never
\* changes once constructed, a step of one call leaves the state of every
\* other call as it was, and in every interleaving each call's outcome
\* (error, or status, status text and data() outcomes) is the one it has
\* when run alone.
C16_ConcurrentCallsIndependent ==
  /\ [](\A r \in ConcurrentReqs : C16_AsAlone(r))
  /\ [][client = "constructed" => baseUrl' = baseUrl]_vars
  /\ [][\A r \in ConcurrentReqs, q \in ConcurrentReqs :
          (r # q /\ reqs'[r] # reqs[r]) => reqs'[q] = reqs[q]]_vars

C16_Witness ==
  /\ Len(fetchCalls) = 2
  /\ fetchCalls[1].req = "r1"
  /\ fetchCalls[2].req = "r2"
  /\ reqs["r1"].pc = "rejected"
  /\ reqs["r1"].error = Str("Client error: [404] (OK)")
  /\ reqs["r2"].pc = "fulfilled"
  /\ reqs["r2"].result = [status |-> 200, statusText |-> "OK"]
  /\ reqs["r2"].dataOutcomes = <<"decoded:json">>

=============================================================================
